---- MODULE Spec2Model ----
(***************************************************************************)
(* A model of the Substack export scripts: the HTML-to-Markdown converter  *)
(* (scripts/parse_html.py), its driver loop, and the quarterly batcher     *)
(* (scripts/batch_by_quarter.py).                                          *)
(*                                                                         *)
(* A Python string is a sequence of lexemes: one-character strings, and    *)
(* the literal words the code searches for ("footnote-", "anchor-",        *)
(* "substackcdn.com", "bucketeer"), which are kept whole.                  *)
(***************************************************************************)
EXTENDS Integers, Sequences, FiniteSets, TLC

\* ------------------------------------------------------------------ bounds
MaxTop == 3
MaxNum == 3
MaxFiles == 3
MaxRows == 3

\* ------------------------------------------------------ Python primitives
\* Python's None: a value no string of the model equals.
None == <<"<None>">>

\* Truth value of an `if x:` test on a string-or-None.
Truthy(r) == r # None /\ r # <<>>

RECURSIVE Concat(_)
\* ''.join(parts)
Concat(parts) ==
    IF parts = <<>> THEN <<>> ELSE Head(parts) \o Concat(Tail(parts))

RECURSIVE str_join(_, _)
\* sep.join(parts)
str_join(sep, parts) ==
    IF parts = <<>> THEN <<>>
    ELSE IF Len(parts) = 1 THEN parts[1]
    ELSE parts[1] \o sep \o str_join(sep, Tail(parts))

Whitespace == {" ", "\n", "\t"}

RECURSIVE lstrip(_)
lstrip(s) == IF s # <<>> /\ Head(s) \in Whitespace THEN lstrip(Tail(s)) ELSE s

RECURSIVE rstrip(_)
rstrip(s) ==
    IF s # <<>> /\ s[Len(s)] \in Whitespace
    THEN rstrip(SubSeq(s, 1, Len(s) - 1)) ELSE s

\* str.strip()
str_strip(s) == rstrip(lstrip(s))

DigitChars == <<"0", "1", "2", "3", "4", "5", "6", "7", "8", "9">>

IsDigit(c) == \E i \in 1..10 : DigitChars[i] = c

DigitVal(c) == (CHOOSE i \in 1..10 : DigitChars[i] = c) - 1

RECURSIVE int_str(_)
\* f"{n}" of a non-negative int
int_str(n) ==
    IF n < 10 THEN <<DigitChars[n + 1]>>
    ELSE int_str(n \div 10) \o <<DigitChars[(n % 10) + 1]>>

RECURSIVE parse_int(_)
\* int(digits)
parse_int(ds) ==
    IF ds = <<>> THEN 0
    ELSE parse_int(SubSeq(ds, 1, Len(ds) - 1)) * 10 + DigitVal(ds[Len(ds)])

\* `needle in s` for a needle that is one lexeme
str_contains(s, needle) == \E i \in 1..Len(s) : s[i] = needle

\* whether the literal lit occurs in s at position i
LitAt(s, i, lit) ==
    /\ i + Len(lit) - 1 <= Len(s)
    /\ SubSeq(s, i, i + Len(lit) - 1) = lit

RECURSIVE DigitRun(_, _)
\* the maximal run of digits of s from position i on: the group (\d+)
DigitRun(s, i) ==
    IF i <= Len(s) /\ IsDigit(s[i]) THEN <<s[i]>> \o DigitRun(s, i + 1) ELSE <<>>

\* re.search(lit + r'(\d+)', s): group 1 of the leftmost match, <<>> if none
re_search_digits(lit, s) ==
    LET hits == {i \in 1..Len(s) : LitAt(s, i, lit) /\ DigitRun(s, i + Len(lit)) # <<>>}
    IN  IF hits = {} THEN <<>>
        ELSE DigitRun(s, (CHOOSE i \in hits : \A j \in hits : i <= j) + Len(lit))

\* ---------------------------------------------------------------- the DOM
\* A node of the parsed tree: a text node (name TextName) or an element.
TextName == "#text"

Text(s) ==
    [name |-> TextName, cls |-> {}, href |-> <<>>, src |-> <<>>, alt |-> <<>>,
     kids |-> <<>>, text |-> s]

Elem(name, cls, kids) ==
    [name |-> name, cls |-> cls, href |-> <<>>, src |-> <<>>, alt |-> <<>>,
     kids |-> kids, text |-> <<>>]

Link(cls, href, kids) ==
    [name |-> "a", cls |-> cls, href |-> href, src |-> <<>>, alt |-> <<>>,
     kids |-> kids, text |-> <<>>]

Img(alt, src) ==
    [name |-> "img", cls |-> {}, href |-> <<>>, src |-> src, alt |-> alt,
     kids |-> <<>>, text |-> <<>>]

\* what find() returns when nothing matches
NoNode == Text(None)

RECURSIVE descendants_of(_)
\* the descendants of a list of siblings, in document (pre-) order
descendants_of(ks) ==
    IF ks = <<>> THEN <<>>
    ELSE <<Head(ks)>> \o descendants_of(Head(ks).kids) \o descendants_of(Tail(ks))

\* element.find(name, class_=cls): the first matching descendant (cls "" = any)
find(element, name, cls) ==
    LET ds == descendants_of(element.kids)
        hits == {i \in 1..Len(ds) :
                    ds[i].name = name /\ (cls = "" \/ cls \in ds[i].cls)}
    IN  IF hits = {} THEN NoNode
        ELSE ds[CHOOSE i \in hits : \A j \in hits : i <= j]

RECURSIVE texts_of(_)
texts_of(ds) ==
    IF ds = <<>> THEN <<>>
    ELSE (IF Head(ds).name = TextName THEN Head(ds).text ELSE <<>>)
         \o texts_of(Tail(ds))

\* element.get_text(): every text descendant, concatenated
get_text(element) ==
    IF element.name = TextName THEN element.text
    ELSE texts_of(descendants_of(element.kids))

\* ------------------------------------------------- inline content extractor
FootnoteRefPattern == <<"#", "footnote-">>

FootnoteDefPattern == <<"footnote-", "anchor-">>

\* the one-character string holding a backquote
Backtick == <<"<backquote>">>

\* f"[^{footnote_num}]"
footnote_marker(digits) == <<"[", "^">> \o digits \o <<"]">>

\* mutant: footnote anchors are dropped from the inline run
render_footnote_anchor_dropped(child) == <<>>

\* what a footnote-anchor link contributes to the inline run
render_footnote_anchor(child) ==
    LET m == re_search_digits(FootnoteRefPattern, child.href)
    IN  IF m # <<>> THEN footnote_marker(m) ELSE <<>>

\* what a regular link contributes to the inline run
render_link(child) ==
    LET href == child.href
        text == get_text(child)
    IN  IF href # <<>> /\ text # <<>>
        THEN <<"[">> \o text \o <<"]", "(">> \o href \o <<")">>
        ELSE text

RECURSIVE get_text_content(_)
RECURSIVE inline_children(_)

inline_child(child) ==
    IF child.name = TextName THEN child.text
    ELSE IF child.name = "a" THEN
        IF "footnote-anchor" \in child.cls
        THEN render_footnote_anchor(child)
        ELSE render_link(child)
    ELSE IF child.name = "em" THEN <<"*">> \o get_text_content(child) \o <<"*">>
    ELSE IF child.name = "strong"
        THEN <<"*", "*">> \o get_text_content(child) \o <<"*", "*">>
    ELSE IF child.name = "code" THEN Backtick \o get_text(child) \o Backtick
    ELSE get_text_content(child)

inline_children(ks) ==
    IF ks = <<>> THEN <<>>
    ELSE inline_child(Head(ks)) \o inline_children(Tail(ks))

get_text_content(element) ==
    IF element.name = TextName THEN str_strip(element.text)
    ELSE inline_children(element.kids)

\* ------------------------------------------------------ footnote registry
\* A dict numeral -> content, kept in insertion order as Python keeps it:
\* a sequence of [k, v] entries with distinct k.
dict_keys(d) == [i \in 1..Len(d) |-> d[i].k]

dict_has(d, key) == \E i \in 1..Len(d) : d[i].k = key

dict_get(d, key) == d[CHOOSE i \in 1..Len(d) : d[i].k = key].v

\* mutant: d.setdefault(key, value), the first write wins
dict_set_keep_first(d, key, value) ==
    IF \E i \in 1..Len(d) : d[i].k = key THEN d
    ELSE Append(d, [k |-> key, v |-> value])

\* d[key] = value
dict_set(d, key, value) ==
    IF dict_has(d, key)
    THEN [i \in 1..Len(d) |-> IF d[i].k = key THEN [k |-> key, v |-> value] ELSE d[i]]
    ELSE Append(d, [k |-> key, v |-> value])

RECURSIVE insert_sorted(_, _)
insert_sorted(x, s) ==
    IF s = <<>> THEN <<x>>
    ELSE IF x < Head(s) THEN <<x>> \o s
    ELSE <<Head(s)>> \o insert_sorted(x, Tail(s))

RECURSIVE sorted(_)
\* sorted(keys) of a list of ints
sorted(keys) ==
    IF keys = <<>> THEN <<>> ELSE insert_sorted(Head(keys), sorted(Tail(keys)))

\* handle_footnote_definition: the registry after the call (it returns None)
handle_footnote_definition(element, footnote_refs) ==
    LET footnote_num_elem == find(element, "a", "footnote-number")
        m == re_search_digits(FootnoteDefPattern, footnote_num_elem.href)
        content_elem == find(element, "div", "footnote-content")
    IN  IF footnote_num_elem # NoNode /\ m # <<>> /\ content_elem # NoNode
        THEN dict_set(footnote_refs, parse_int(m),
                      str_strip(get_text_content(content_elem)))
        ELSE footnote_refs

\* ------------------------------------------------------------ image blocks
CdnMarker == "substackcdn.com"

BucketMarker == "bucketeer"

\* mutant: the bucketeer branch without its test that href is non-empty
resolve_src_any_href(src, parent_link) ==
    IF parent_link # NoNode
    THEN LET href == parent_link.href
         IN  IF href # <<>> /\ str_contains(href, CdnMarker) THEN href
             ELSE IF str_contains(src, BucketMarker) THEN href
             ELSE src
    ELSE src

\* the source handle_image emits for an image with source src whose
\* image-link anchor (parent_link, NoNode if absent) is given
resolve_src(src, parent_link) ==
    IF parent_link # NoNode
    THEN LET href == parent_link.href
         IN  IF href # <<>> /\ str_contains(href, CdnMarker) THEN href
             ELSE IF str_contains(src, BucketMarker) /\ href # <<>> THEN href
             ELSE src
    ELSE src

\* f"![{alt_text}]({src})"
image_line(alt_text, src) ==
    <<"!", "[">> \o alt_text \o <<"]", "(">> \o src \o <<")">>

handle_image(element) ==
    LET img == find(element, "img", "")
        src == resolve_src(img.src, find(element, "a", "image-link"))
        caption == find(element, "figcaption", "")
        caption_link == find(caption, "a", "")
    IN  IF img = NoNode THEN None
        ELSE IF caption # NoNode THEN
            IF caption_link # NoNode
            THEN image_line(img.alt, src) \o <<"\n", "*", "[">>
                 \o get_text(caption_link) \o <<"]", "(">> \o caption_link.href
                 \o <<")", "*">>
            ELSE image_line(img.alt, src) \o <<"\n", "*">> \o get_text(caption)
                 \o <<"*">>
        ELSE image_line(img.alt, src)

\* ------------------------------------------------------ element transducer
\* mutant: an unrecognized element is rendered as an inline container
unrecognized_as_container(element) == get_text_content(element)

\* what process_element returns for an element of no recognized kind
unrecognized_element(element) == None

RECURSIVE quote_lines(_)
\* the "> ..." lines of the direct paragraph children of a blockquote
quote_lines(ks) ==
    IF ks = <<>> THEN <<>>
    ELSE (IF Head(ks).name = "p"
          THEN << <<">", " ">> \o get_text_content(Head(ks)) >> ELSE <<>>)
         \o quote_lines(Tail(ks))

RECURSIVE process_element(_, _)
RECURSIVE process_children(_, _, _)

\* the loop over the children of a plain division: the results kept and
\* the registry after it
process_children(ks, footnote_refs, results) ==
    IF ks = <<>> THEN [results |-> results, refs |-> footnote_refs]
    ELSE IF Head(ks).name = TextName
    THEN process_children(Tail(ks), footnote_refs, results)
    ELSE LET r == process_element(Head(ks), footnote_refs)
         IN  IF Truthy(r.result)
             THEN process_children(Tail(ks), r.refs, Append(results, r.result))
             ELSE process_children(Tail(ks), r.refs, results)

\* process_element: [result: what it returns, refs: the registry after it]
process_element(element, footnote_refs) ==
    IF element.name = TextName THEN
        [result |-> IF str_strip(element.text) # <<>>
                    THEN str_strip(element.text) ELSE None,
         refs |-> footnote_refs]
    ELSE IF element.name = "h1" THEN
        [result |-> <<"#", " ">> \o get_text_content(element), refs |-> footnote_refs]
    ELSE IF element.name = "h2" THEN
        [result |-> <<"#", "#", " ">> \o get_text_content(element),
         refs |-> footnote_refs]
    ELSE IF element.name = "h3" THEN
        [result |-> <<"#", "#", "#", " ">> \o get_text_content(element),
         refs |-> footnote_refs]
    ELSE IF element.name = "p" THEN
        [result |-> get_text_content(element), refs |-> footnote_refs]
    ELSE IF element.name = "blockquote" THEN
        [result |-> str_join(<<"\n">>, quote_lines(element.kids)),
         refs |-> footnote_refs]
    ELSE IF element.name = "div" THEN
        IF "captioned-image-container" \in element.cls
        THEN [result |-> handle_image(element), refs |-> footnote_refs]
        ELSE IF "footnote" \in element.cls
        THEN [result |-> None,
              refs |-> handle_footnote_definition(element, footnote_refs)]
        ELSE LET r == process_children(element.kids, footnote_refs, <<>>)
             IN  [result |-> IF r.results # <<>>
                             THEN str_join(<<"\n", "\n">>, r.results) ELSE None,
                  refs |-> r.refs]
    ELSE [result |-> unrecognized_element(element), refs |-> footnote_refs]

\* ------------------------------------------------------ document assembler
\* the header blocks written before the loop (lines 20-24)
title_lines(title, subtitle) ==
    IF Truthy(title)
    THEN << <<"#", " ">> \o title >>
         \o (IF Truthy(subtitle) THEN << <<"*">> \o subtitle \o <<"*">> >> ELSE <<>>)
         \o << <<"-", "-", "-">> >>
    ELSE <<>>

\* mutant: one registry shared by every conversion
shared_registry(previous) == previous

\* the registry a conversion starts with, whatever an earlier one left
new_registry(previous) == <<>>

\* the block that separates the body from the footnote entries
footnote_separator == <<"\n", "-", "-", "-", "\n">>

\* f"[^{ref_num}]: {footnote_references[ref_num]}"
footnote_line(ref_num, content) ==
    <<"[", "^">> \o int_str(ref_num) \o <<"]", ":", " ">> \o content

\* mutant: the entries in the order they were registered
footnote_order_as_registered(footnote_refs) == dict_keys(footnote_refs)

\* the order in which the entries are emitted
footnote_order(footnote_refs) == sorted(dict_keys(footnote_refs))

\* the blocks appended after the loop (lines 41-44)
footnote_lines(footnote_refs) ==
    IF footnote_refs # <<>>
    THEN LET order == footnote_order(footnote_refs)
         IN  <<footnote_separator>>
             \o [i \in 1..Len(order) |->
                    footnote_line(order[i], dict_get(footnote_refs, order[i]))]
    ELSE <<>>

\* mutant: the joined blocks returned without strip()
join_lines_unstripped(lines) == str_join(<<"\n", "\n">>, lines)

\* '\n\n'.join(markdown_lines).strip()
join_lines(lines) == str_strip(str_join(<<"\n", "\n">>, lines))

\* mutant: the registry is taken over only when the child produced a block
loop_body_registering_on_output(element, lines, footnote_refs) ==
    IF element.name = TextName
    THEN [lines |-> lines, refs |-> footnote_refs]
    ELSE LET r == process_element(element, footnote_refs)
         IN  [lines |-> IF Truthy(r.result) THEN Append(lines, r.result) ELSE lines,
              refs |-> IF Truthy(r.result) THEN r.refs ELSE footnote_refs]

\* one iteration of the loop over soup.children: the lines and registry after
loop_body(element, lines, footnote_refs) ==
    IF element.name = TextName
    THEN [lines |-> lines, refs |-> footnote_refs]
    ELSE LET r == process_element(element, footnote_refs)
         IN  [lines |-> IF Truthy(r.result) THEN Append(lines, r.result) ELSE lines,
              refs |-> r.refs]

RECURSIVE loop_from(_, _, _, _)
\* the loop over soup.children from a given child on (lines 30-38): the
\* lines, the registry and the counter after it
loop_from(children, lines, footnote_refs, counter) ==
    IF children = <<>>
    THEN [lines |-> lines, refs |-> footnote_refs, counter |-> counter]
    ELSE LET s == loop_body(Head(children), lines, footnote_refs)
         IN  IF Len(s.lines) > Len(lines)
             THEN loop_from(Tail(children), s.lines, s.refs, Len(s.refs) + 1)
             ELSE loop_from(Tail(children), s.lines, s.refs, counter)

\* convert_html_to_markdown as a function of its arguments alone
convert_html_to_markdown(children, title, subtitle) ==
    LET s == loop_from(children, title_lines(title, subtitle), new_registry(<<>>), 1)
    IN  join_lines(s.lines \o footnote_lines(s.refs))

\* ------------------------------------------------------------------ inputs
A == <<"a">>

B == <<"b">>

P(kids) == Elem("p", {}, kids)

\* <a class="footnote-anchor" href="#footnote-n">n</a>
Ref(n) ==
    Link({"footnote-anchor"}, <<"#", "footnote-">> \o int_str(n), <<Text(int_str(n))>>)

\* a footnote anchor whose target does not match the pattern
BadRef == Link({"footnote-anchor"}, <<"#", "x">>, <<Text(<<"1">>)>>)

\* <a class="footnote-number" href="#footnote-anchor-n">n</a>
NumberLink(n) ==
    Link({"footnote-number"}, <<"#", "footnote-", "anchor-">> \o int_str(n),
         <<Text(int_str(n))>>)

\* <div class="footnote"> number link, <div class="footnote-content">kids</div>
FnDef(n, kids) ==
    Elem("div", {"footnote"},
         <<NumberLink(n), Elem("div", {"footnote-content"}, kids)>>)

\* a footnote division with a number link and no content element
FnDefNoContent(n) == Elem("div", {"footnote"}, <<NumberLink(n)>>)

\* a captioned image: image-link anchor around the img, and a caption
Figure ==
    Elem("div", {"captioned-image-container"},
         <<Link({"image-link"}, <<"h", "/", "substackcdn.com">>,
                <<Img(A, <<"h", "/", "bucketeer">>)>>),
           Elem("figcaption", {}, <<Text(B)>>)>>)

\* the children the parser yields for the document root
TopNodes ==
    { P(<<Text(A), Ref(2), Elem("em", {}, <<Text(B)>>),
          Elem("strong", {}, <<Text(A)>>), Elem("code", {}, <<Text(B)>>),
          Link({}, <<"u">>, <<Text(A)>>), BadRef, Elem("span", {}, <<Text(B)>>),
          Ref(1)>>),
      P(<<Text(<<" ">>)>>),
      Elem("div", {}, <<FnDef(2, <<Text(B)>>), FnDefNoContent(2), Text(<<" ">>),
                        Elem("h2", {}, <<Text(A)>>),
                        Elem("blockquote", {},
                             <<P(<<Text(A)>>), FnDef(1, <<Text(B)>>), P(<<Text(B)>>)>>)>>),
      Elem("section", {}, <<FnDef(3, <<Text(B)>>)>>),
      Elem("div", {}, <<Elem("h1", {}, <<Text(A)>>),
                        Elem("section", {}, <<P(<<Text(B)>>)>>),
                        Figure,
                        Elem("h3", {}, <<Text(B)>>)>>),
      Text(A),
      FnDef(1, <<Text(<<" ">>), Text(B), Ref(2)>>) }
    \cup { FnDef(n, <<P(<<Text(A)>>)>>) : n \in 1..MaxNum }

\* the (title, subtitle) pairs a conversion is called with
Titles == { <<None, None>>, <<<<"T">>, None>>, <<<<"T">>, <<"S">>>> }

\* ------------------------------------------------------------------- state
VARIABLES
    pc,                   \* where convert_html_to_markdown is: idle, loop, done
    doc,                  \* the children soup.children has yielded so far
    title,
    subtitle,
    idx,                  \* the position of the loop over soup.children
    markdown_lines,
    footnote_references,  \* the registry object made last (garbage once idle)
    footnote_counter,
    output,               \* what the conversion returns
    prior_footnotes,      \* history: an earlier conversion registered footnotes
    img_pc,               \* handle_image: idle, done
    img_element,          \* the division handle_image is called with
    img_result,           \* what it returns
    drv_pc,               \* parse_html.main: off, loop, done, aborted
    html_files,           \* the list the glob returned
    file_kind,            \* per file: ok, or how converting it fails
    file_markdown,        \* per file: what its content converts to
    drv_i,                \* the position of the loop over html_files
    attempted,            \* history: the files convert_file was called on
    out_files,            \* the output directory: file -> content written
    bat_pc,               \* batch_by_quarter.main: off, quarters, posts, done
    rows,                 \* the rows of posts.csv
    md_kind,              \* per post: its Markdown file is ok, missing, unreadable
    posts_by_quarter,
    quarter_keys,         \* sorted(posts_by_quarter.keys())
    bat_q,                \* the position of the loop over the quarters
    bat_i,                \* the position of the loop over the quarter's posts
    out_f,                \* the writes made to the quarter file that is open
    quarter_files,        \* the quarter files closed so far
    total_posts,
    pipe_pc,              \* process_export.main: off, loop, child, exit, check, done
    posts_dir_exists,     \* <export_dir>/posts exists
    csv_exists,           \* <export_dir>/posts.csv exists
    pipe_i,               \* the position of the loop over steps
    started,              \* history: the scripts run_script has started
    main_outcomes,        \* history: how the main of each started script ended
    conversion_errors,    \* the files parse_html.main reported an ERROR for
    returncode,           \* result.returncode of the child that exited last
    pipe_result           \* what process_export.main returned (-1: not yet)

convVars ==
    <<pc, doc, title, subtitle, idx, markdown_lines, footnote_references,
      footnote_counter, output, prior_footnotes>>

imgVars == <<img_pc, img_element, img_result>>

drvVars ==
    <<drv_pc, html_files, file_kind, file_markdown, drv_i, attempted, out_files>>

batVars ==
    <<bat_pc, rows, md_kind, posts_by_quarter, quarter_keys, bat_q, bat_i, out_f,
      quarter_files, total_posts>>

pipeVars ==
    <<pipe_pc, posts_dir_exists, csv_exists, pipe_i, started, main_outcomes,
      conversion_errors, returncode, pipe_result>>

vars == <<convVars, imgVars, drvVars, batVars, pipeVars>>

ConvInit ==
    /\ pc = "idle"
    /\ doc = <<>>
    /\ title = None
    /\ subtitle = None
    /\ idx = 1
    /\ markdown_lines = <<>>
    /\ footnote_references = <<>>
    /\ footnote_counter = 1
    /\ output = None
    /\ prior_footnotes = FALSE

\* handle_image not called
ImgIdle ==
    /\ img_pc = "idle"
    /\ img_element = NoNode
    /\ img_result = None

\* parse_html.main not run
DrvOff ==
    /\ drv_pc = "off"
    /\ html_files = <<>>
    /\ file_kind = <<>>
    /\ file_markdown = <<>>
    /\ drv_i = 1
    /\ attempted = <<>>
    /\ out_files = <<>>

\* batch_by_quarter.main not run
BatOff ==
    /\ bat_pc = "off"
    /\ rows = <<>>
    /\ md_kind = <<>>
    /\ posts_by_quarter = <<>>
    /\ quarter_keys = <<>>
    /\ bat_q = 1
    /\ bat_i = 1
    /\ out_f = <<>>
    /\ quarter_files = <<>>
    /\ total_posts = 0

\* process_export.main is not running
PipeOff ==
    /\ pipe_pc = "off"
    /\ posts_dir_exists = FALSE
    /\ csv_exists = FALSE
    /\ pipe_i = 1
    /\ started = <<>>
    /\ main_outcomes = <<>>
    /\ conversion_errors = 0
    /\ returncode = 0
    /\ pipe_result = -1

Init == ConvInit /\ ImgIdle /\ DrvOff /\ BatOff /\ PipeOff

\* a call of convert_html_to_markdown, up to the loop (lines 13-27)
StartConversion ==
    /\ pc = "idle"
    /\ \E t \in Titles :
        /\ doc' = <<>>
        /\ title' = t[1]
        /\ subtitle' = t[2]
        /\ markdown_lines' = title_lines(t[1], t[2])
    /\ footnote_references' = new_registry(footnote_references)
    /\ footnote_counter' = 1
    /\ idx' = 1
    /\ output' = None
    /\ pc' = "loop"
    /\ UNCHANGED <<prior_footnotes, imgVars, drvVars, batVars, pipeVars>>

\* one iteration of the loop over soup.children, which yields one more
\* child of the root (lines 30-38)
ProcessChild ==
    /\ pc = "loop"
    /\ Len(doc) < MaxTop
    /\ \E element \in TopNodes :
        LET s == loop_body(element, markdown_lines, footnote_references)
        IN  /\ doc' = Append(doc, element)
            /\ markdown_lines' = s.lines
            /\ footnote_references' = s.refs
            /\ footnote_counter' =
                 IF Len(s.lines) > Len(markdown_lines)
                 THEN Len(s.refs) + 1 ELSE footnote_counter
    /\ idx' = idx + 1
    /\ UNCHANGED <<pc, title, subtitle, output, prior_footnotes, pipeVars>>
    /\ UNCHANGED <<imgVars, drvVars, batVars, pipeVars>>

\* soup.children is exhausted: the footnote block and the return
\* (lines 40-46)
FinishConversion ==
    /\ pc = "loop"
    /\ markdown_lines' = markdown_lines \o footnote_lines(footnote_references)
    /\ output' = join_lines(markdown_lines')
    /\ pc' = "done"
    /\ UNCHANGED <<doc, title, subtitle, idx, footnote_references, footnote_counter,
                   prior_footnotes, imgVars, drvVars, batVars, pipeVars>>

\* the caller takes the result; the locals of the call are gone
ReturnToCaller ==
    /\ pc = "done"
    /\ pc' = "idle"
    /\ doc' = <<>>
    /\ title' = None
    /\ subtitle' = None
    /\ idx' = 1
    /\ markdown_lines' = <<>>
    /\ footnote_counter' = 1
    /\ output' = None
    /\ prior_footnotes' = (footnote_references # <<>>)
    /\ UNCHANGED <<footnote_references, imgVars, drvVars, batVars, pipeVars>>

Next == StartConversion \/ ProcessChild \/ FinishConversion \/ ReturnToCaller

Spec == Init /\ [][Next]_vars

\* ------------------------------------------------- reading a finished state
Done == pc = "done"

\* the footnote divisions the traversal hands to handle_footnote_definition,
\* in document order: those reached from the root through plain divisions
RECURSIVE MetFootnoteDivs(_)
MetFootnoteDivs(ks) ==
    IF ks = <<>> THEN <<>>
    ELSE (LET e == Head(ks)
          IN  IF e.name # "div" \/ "captioned-image-container" \in e.cls THEN <<>>
              ELSE IF "footnote" \in e.cls THEN <<e>>
              ELSE MetFootnoteDivs(e.kids))
         \o MetFootnoteDivs(Tail(ks))

\* the numeral a footnote division's number link yields (<<>> if none)
NumeralDigits(e) ==
    re_search_digits(FootnoteDefPattern, find(e, "a", "footnote-number").href)

\* the numeral e defines when e is a footnote-definition division (a
\* division of class footnote with a number link that yields a numeral and
\* with a content element), -1 otherwise
DefinitionNumeral(e) ==
    IF /\ e.name = "div"
       /\ "footnote" \in e.cls
       /\ "captioned-image-container" \notin e.cls
    THEN LET digits == NumeralDigits(e)
         IN  IF digits # <<>> /\ find(e, "div", "footnote-content") # NoNode
             THEN parse_int(digits)
             ELSE -1
    ELSE -1

\* e is a footnote-definition division for numeral n
IsDefinitionFor(e, n) == DefinitionNumeral(e) = n

RECURSIVE DefinitionNumerals(_)
DefinitionNumerals(es) ==
    IF es = <<>> THEN <<>>
    ELSE <<DefinitionNumeral(Head(es))>> \o DefinitionNumerals(Tail(es))

\* the members of es whose numeral, listed at the same position of ns, is n
Pick(es, ns, n) ==
    LET at == {i \in 1..Len(es) : ns[i] = n}
        RECURSIVE Upto(_)
        Upto(k) == IF k = 0 THEN <<>>
                   ELSE Upto(k - 1) \o (IF k \in at THEN <<es[k]>> ELSE <<>>)
    IN  Upto(Len(es))

\* the definitions for n among the first k root children, as the traversal
\* meets them
MetDefinitions(k, n) ==
    SelectSeq(MetFootnoteDivs(SubSeq(doc, 1, k)), LAMBDA e : IsDefinitionFor(e, n))

\* a definition for n exists somewhere in the document tree
DefinedAnywhere(n) ==
    LET below == descendants_of(doc)
    IN  \E i \in 1..Len(below) : IsDefinitionFor(below[i], n)

\* the content the registry should hold for a definition
DefinitionContent(e) ==
    str_strip(get_text_content(find(e, "div", "footnote-content")))

Numerals == 1..MaxNum

EntriesFor(n) ==
    Cardinality({i \in 1..Len(footnote_references) : footnote_references[i].k = n})

\* the positions of the output where a footnote entry line "[^<digits>]:" starts
EntryStarts ==
    {i \in 1..Len(output) :
        /\ i = 1 \/ output[i - 1] = "\n"
        /\ LitAt(output, i, <<"[", "^">>)
        /\ DigitRun(output, i + 2) # <<>>
        /\ LitAt(output, i + 2 + Len(DigitRun(output, i + 2)), <<"]", ":">>)}

EntryNumeral(i) == parse_int(DigitRun(output, i + 2))

LinesFor(n) == Cardinality({i \in EntryStarts : EntryNumeral(i) = n})

\* the blocks of the body: markdown_lines without header and footnote block
BodyBlocks ==
    SubSeq(markdown_lines, Len(title_lines(title, subtitle)) + 1,
           Len(markdown_lines)
             - (IF footnote_references = <<>> THEN 0
                ELSE Len(footnote_references) + 1))

HasMarker(s, n) ==
    LET marker == footnote_marker(int_str(n))
    IN  \E i \in 1..Len(s) : LitAt(s, i, marker)

BodyHasRef(n) == \E b \in 1..Len(BodyBlocks) : HasMarker(BodyBlocks[b], n)

\* ---------------------------------------------------------------------- C1
\* C1: when a conversion is done, the footnote entry lines of the output are
\* in strictly ascending numeral order and are the entries of the registry,
\* whatever order the definitions were registered in.
C1_FootnotesAscending ==
    Done =>
        LET entries == EntryStarts
        IN  /\ \A i, j \in entries : i < j => EntryNumeral(i) < EntryNumeral(j)
            /\ {EntryNumeral(i) : i \in entries}
                 = {footnote_references[i].k : i \in 1..Len(footnote_references)}

\* definitions met in the order 3, 1, 2 and three entry lines in the output
C1_Witness ==
    /\ Done
    /\ dict_keys(footnote_references) = <<3, 1, 2>>
    /\ Cardinality(EntryStarts) = 3

\* ---------------------------------------------------------------------- C2
\* C2 as stated: a numeral referenced in the body and defined anywhere in
\* the document tree has exactly one registry entry and one entry line.
C2_DefinedAnywhere ==
    Done =>
        \A n \in Numerals :
            (BodyHasRef(n) /\ DefinedAnywhere(n))
                => (EntriesFor(n) = 1 /\ LinesFor(n) = 1)

\* C2 amended: a numeral referenced in the body whose definition division is
\* a root child or nested in plain divisions only has exactly one registry
\* entry and one entry line.
C2_DefinedReached ==
    Done =>
        \A n \in Numerals :
            (BodyHasRef(n) /\ MetDefinitions(Len(doc), n) # <<>>)
                => (EntriesFor(n) = 1 /\ LinesFor(n) = 1)

\* a referenced numeral defined twice, once of them inside a plain division
C2_Witness ==
    /\ Done
    /\ \E n \in Numerals :
        /\ BodyHasRef(n)
        /\ Len(MetDefinitions(Len(doc), n)) = 2
        /\ \E i \in 1..Len(doc) : doc[i].name = "div" /\ doc[i].cls = {}
        /\ EntriesFor(n) = 1

\* ---------------------------------------------------------------------- C3
NoEdgeWhitespace(s) ==
    s = <<>> \/ (s[1] \notin Whitespace /\ s[Len(s)] \notin Whitespace)

\* the positions where a maximal run of newlines starts
RunStarts(s) == {i \in 1..Len(s) : s[i] = "\n" /\ (i = 1 \/ s[i - 1] # "\n")}

RECURSIVE RunLen(_, _)
RunLen(s, i) == IF i <= Len(s) /\ s[i] = "\n" THEN 1 + RunLen(s, i + 1) ELSE 0

\* a line of the output that is exactly "---" starts at i
RuleLineAt(i) ==
    /\ LitAt(output, i, <<"-", "-", "-">>)
    /\ i = 1 \/ output[i - 1] = "\n"
    /\ i + 3 > Len(output) \/ output[i + 3] = "\n"

FirstEntry ==
    LET entries == EntryStarts
    IN  CHOOSE i \in entries : \A j \in entries : i <= j

\* C3 as stated: no leading or trailing whitespace, never more than one
\* blank line between blocks (the input texts hold no newline, so every
\* newline of the output is the converter's), and the footnote block comes
\* one blank line after a "---" line.
C3_SingleBlankLine ==
    Done =>
        /\ NoEdgeWhitespace(output)
        /\ \A r \in RunStarts(output) : RunLen(output, r) <= 2
        /\ footnote_references # <<>> =>
             /\ EntryStarts # {}
             /\ FirstEntry > 5
             /\ RuleLineAt(FirstEntry - 5)

\* C3 amended: as stated, except that the "---" line before the footnote
\* entries is set off by two blank lines: two from the first entry, and two
\* from the block before it when there is one. No other blocks are more
\* than one blank line apart.
C3_SeparatorSetOff ==
    Done =>
        LET first == FirstEntry
            runs == RunStarts(output)
        IN  /\ NoEdgeWhitespace(output)
            /\ footnote_references # <<>> =>
                 /\ EntryStarts # {}
                 /\ first > 6
                 /\ RuleLineAt(first - 6)
                 /\ RunLen(output, first - 3) = 3
                 /\ first - 6 = 1
                    \/ /\ first - 6 > 4
                       /\ (first - 9) \in runs
                       /\ RunLen(output, first - 9) = 3
            /\ \A r \in runs :
                 \/ RunLen(output, r) <= 2
                 \/ /\ RunLen(output, r) = 3
                    /\ footnote_references # <<>>
                    /\ r \in {first - 9, first - 3}

\* a title, a subtitle, a body block and two footnote entries
C3_Witness ==
    /\ Done
    /\ Truthy(title) /\ Truthy(subtitle)
    /\ BodyBlocks # <<>>
    /\ Len(footnote_references) = 2
    /\ Cardinality({r \in RunStarts(output) : RunLen(output, r) = 3}) = 2

\* ---------------------------------------------------------------------- C4
Recognized == {"h1", "h2", "h3", "p", "blockquote", "div"}

IsUnrecognized(e) == e.name # TextName /\ e.name \notin Recognized

IsPlainDiv(e) ==
    /\ e.name = "div"
    /\ "captioned-image-container" \notin e.cls
    /\ "footnote" \notin e.cls

RemoveAt(ks, i) == SubSeq(ks, 1, i - 1) \o SubSeq(ks, i + 1, Len(ks))

\* the sibling lists obtained from ks by removing one unrecognized element,
\* from ks itself or from the children of a plain division in it
RECURSIVE Removals(_)
Removals(ks) ==
    {RemoveAt(ks, i) : i \in {j \in 1..Len(ks) : IsUnrecognized(ks[j])}}
    \cup UNION {{[ks EXCEPT ![i].kids = r] : r \in Removals(ks[i].kids)} :
                    i \in {j \in 1..Len(ks) : IsPlainDiv(ks[j])}}

\* C4: the output of a document is the output of the same document with any
\* one unrecognized element removed from the root's children or from the
\* children of a plain division.
C4_DropSilently ==
    Done =>
        \A d \in Removals(doc) : convert_html_to_markdown(d, title, subtitle) = output

\* an unrecognized element between two root siblings, another in a division
C4_Witness ==
    /\ Done
    /\ Len(doc) = 3
    /\ IsUnrecognized(doc[2])
    /\ IsPlainDiv(doc[3]) /\ Removals(doc[3].kids) # {}
    /\ Len(BodyBlocks) = 2

InConversion == pc \in {"loop", "done"}

ContentHasMarker(s) == \E j \in 1..Len(s) : LitAt(s, j, <<"[", "^">>)

\* the registry holds entries only for the numerals of the definitions met
\* among the children processed so far
OnlyOwn(nums) ==
    \A i \in 1..Len(footnote_references) :
        \E j \in 1..Len(nums) : nums[j] = footnote_references[i].k

OnlyOwnNumerals ==
    OnlyOwn(DefinitionNumerals(MetFootnoteDivs(SubSeq(doc, 1, idx - 1))))

\* the digits of the numeral d refers to when d is a footnote-anchor link
\* whose target yields one, <<>> otherwise
AnchorDigits(d) ==
    IF d.name = "a" /\ "footnote-anchor" \in d.cls
    THEN re_search_digits(FootnoteRefPattern, d.href)
    ELSE <<>>

AnchorsAmong(ks) == {AnchorDigits(ks[k]) : k \in 1..Len(ks)} \ {<<>>}

\* C10 as stated: no stored content holds a reference marker, and a
\* definition touches no entry but its own.
C10_NoMarkerInContent ==
    InConversion =>
        /\ \A i \in 1..Len(footnote_references) :
             ~ContentHasMarker(footnote_references[i].v)
        /\ OnlyOwnNumerals

\* C10 amended: a definition touches no entry but its own; its stored
\* content holds the marker [^m] when a footnote anchor for m is a child of
\* its content element, and only when one is a descendant of it.
C10_OwnEntryOnly ==
    InConversion =>
      LET met == MetFootnoteDivs(SubSeq(doc, 1, idx - 1))
          nums == DefinitionNumerals(met)
      IN  /\ OnlyOwn(nums)
          /\ \A n \in Numerals :
               LET defs == Pick(met, nums, n)
                   content == find(defs[Len(defs)], "div", "footnote-content")
                   children == AnchorsAmong(content.kids)
                   below == AnchorsAmong(descendants_of(content.kids))
                   stored == dict_get(footnote_references, n)
               IN  defs # <<>> =>
                     \A m \in Numerals :
                       LET marked == HasMarker(stored, m)
                       IN  /\ int_str(m) \in children => marked
                           /\ marked => int_str(m) \in below

\* a stored content that refers to a numeral the registry has no entry for
C10_Witness ==
    /\ Done
    /\ \E n, m \in Numerals :
        /\ EntriesFor(n) = 1
        /\ HasMarker(dict_get(footnote_references, n), m)
        /\ EntriesFor(m) = 0

\* ========================================================== image handler
UrlOther == <<"h", "/", "x">>

UrlBucket == <<"h", "/", "bucketeer", "/", "i">>

UrlCdn == <<"h", "/", "substackcdn.com", "/", "i">>

\* a content-delivery URL that wraps the interim-storage URL
UrlCdnBucket == <<"h", "/", "substackcdn.com", "/", "bucketeer">>

ImageSources == {<<>>, UrlOther, UrlBucket, UrlCdn, UrlCdnBucket}

\* no anchor, an image-link anchor with each target, an anchor of another class
ImageLinks ==
    {<<"none", <<>>>>, <<"other-link", UrlCdn>>}
    \cup {<<"image-link", h>> : h \in {<<>>, UrlOther, UrlBucket, UrlCdn}}

ImageCaptions == {"none", "text", "link"}

LinkPart(l, img) ==
    IF l[1] = "none" THEN <<img>> ELSE <<Link({l[1]}, l[2], <<img>>)>>

CaptionPart(c) ==
    IF c = "none" THEN <<>>
    ELSE IF c = "text" THEN <<Elem("figcaption", {}, <<Text(B)>>)>>
    ELSE <<Elem("figcaption", {}, <<Link({}, UrlOther, <<Text(B)>>)>>)>>

\* the image-container divisions handle_image is called with
ImageContainers ==
    {Elem("div", {"captioned-image-container"},
          LinkPart(l, Img(a, s)) \o CaptionPart(c)) :
        a \in {<<>>, A}, s \in ImageSources, l \in ImageLinks, c \in ImageCaptions}
    \cup {Elem("div", {"captioned-image-container"}, <<Elem("figcaption", {}, <<>>)>>)}

ImgInit == ImgIdle /\ ConvInit /\ DrvOff /\ BatOff /\ PipeOff

\* a call of handle_image, to its return
CallHandleImage ==
    /\ img_pc = "idle"
    /\ \E e \in ImageContainers :
        /\ img_element' = e
        /\ img_result' = handle_image(e)
    /\ img_pc' = "done"
    /\ UNCHANGED <<convVars, drvVars, batVars, pipeVars>>

\* process_element takes the result
ReturnImage ==
    /\ img_pc = "done"
    /\ img_pc' = "idle"
    /\ img_element' = NoNode
    /\ img_result' = None
    /\ UNCHANGED <<convVars, drvVars, batVars, pipeVars>>

ImgNext == CallHandleImage \/ ReturnImage

ImageSpec == ImgInit /\ [][ImgNext]_vars

\* ---------------------------------------------------------------------- C7
\* the image leaf and the image-link anchor of the container, read off the tree
TheImage == find(img_element, "img", "")

TheAnchor == find(img_element, "a", "image-link")

\* the source the claim expects
ExpectedSource ==
    IF TheAnchor # NoNode /\ str_contains(TheAnchor.href, CdnMarker)
    THEN TheAnchor.href
    ELSE IF /\ TheAnchor # NoNode
            /\ str_contains(TheImage.src, BucketMarker)
            /\ TheAnchor.href # <<>>
    THEN TheAnchor.href
    ELSE TheImage.src

\* the source between "](" and ")" of the image line the handler returned
EmittedSource ==
    LET open == CHOOSE i \in 1..Len(img_result) :
                    /\ LitAt(img_result, i, <<"]", "(">>)
                    /\ \A j \in 1..(i - 1) : ~LitAt(img_result, j, <<"]", "(">>)
        close == CHOOSE i \in (open + 2)..Len(img_result) :
                    /\ img_result[i] = ")"
                    /\ \A j \in (open + 2)..(i - 1) : img_result[j] # ")"
    IN  SubSeq(img_result, open + 2, close - 1)

\* C7: the source of the emitted image line is the anchor's target if that
\* holds the content-delivery marker; else the anchor's target if the
\* image's source holds the interim-storage marker and the target is not
\* empty; else the image's own source.
C7_SourceResolution ==
    (img_pc = "done" /\ TheImage # NoNode) =>
        /\ Truthy(img_result)
        /\ LitAt(img_result, 1, <<"!", "[">> \o TheImage.alt \o <<"]", "(">>)
        /\ EmittedSource = ExpectedSource

\* an interim-storage source replaced by the anchor's delivery target
C7_Witness ==
    /\ img_pc = "done"
    /\ TheImage.src = UrlBucket
    /\ TheAnchor # NoNode
    /\ TheAnchor.href = UrlCdn
    /\ EmittedSource = UrlCdn

\* ===================================================== parse_html.main loop
Files == 1..MaxFiles

\* how convert_file goes for a file: it returns, or it raises while reading
\* the file, while converting, or while writing the output
FileKinds == {"ok", "unreadable", "bad_convert", "bad_write"}

\* the lists glob can return: files without repetition, in any order
FileLists ==
    {fl \in UNION {[1..k -> Files] : k \in 0..MaxFiles} :
        \A a, b \in 1..Len(fl) : a # b => fl[a] # fl[b]}

\* the parsed content of a file
FileDoc(f) == <<P(<<Text(A), Ref(f)>>), FnDef(f, <<Text(B)>>)>>

\* post_metadata.get(filename, {}).get('title'): the first file has no entry
FileTitle(f) == IF f = 1 THEN None ELSE <<"T">>

FileSubtitle(f) == IF f = 1 THEN None ELSE <<>>

\* what convert_html_to_markdown returns for a file (line 219)
FileOutput(f) == convert_html_to_markdown(FileDoc(f), FileTitle(f), FileSubtitle(f))

\* where the loop goes on after an exception of convert_file: the except
\* clause reports it and the for statement takes the next file
after_exception_propagates == "aborted"

after_exception == "loop"

DrvInit ==
    /\ ConvInit /\ ImgIdle /\ BatOff /\ PipeOff
    /\ drv_pc = "loop"
    /\ html_files \in FileLists
    /\ file_kind \in [Files -> FileKinds]
    /\ file_markdown = [f \in Files |-> FileOutput(f)]
    /\ drv_i = 1
    /\ attempted = <<>>
    /\ out_files = [f \in Files |-> None]

\* one iteration of the loop: convert_file returns (lines 278-283)
ConvertFileOk ==
    /\ drv_pc = "loop"
    /\ drv_i <= Len(html_files)
    /\ file_kind[html_files[drv_i]] = "ok"
    /\ attempted' = Append(attempted, html_files[drv_i])
    /\ out_files' = [out_files EXCEPT ![html_files[drv_i]] = file_markdown[html_files[drv_i]]]
    /\ drv_i' = drv_i + 1
    /\ UNCHANGED <<drv_pc, html_files, file_kind, file_markdown, convVars, imgVars,
                   batVars, pipeVars>>

\* one iteration of the loop: convert_file raises (lines 278-285)
ConvertFileRaises ==
    /\ drv_pc = "loop"
    /\ drv_i <= Len(html_files)
    /\ file_kind[html_files[drv_i]] # "ok"
    /\ attempted' = Append(attempted, html_files[drv_i])
    /\ drv_pc' = after_exception
    /\ drv_i' = drv_i + 1
    /\ UNCHANGED <<html_files, file_kind, file_markdown, out_files, convVars,
                   imgVars, batVars, pipeVars>>

\* the list is exhausted (lines 287-289)
DriverDone ==
    /\ drv_pc = "loop"
    /\ drv_i > Len(html_files)
    /\ drv_pc' = "done"
    /\ UNCHANGED <<html_files, file_kind, file_markdown, drv_i, attempted,
                   out_files, convVars, imgVars, batVars, pipeVars>>

DrvNext == ConvertFileOk \/ ConvertFileRaises \/ DriverDone

\* the loop is sequential code: a step that can be taken is taken
DriverSpec == DrvInit /\ [][DrvNext]_vars /\ WF_vars(DrvNext)

\* ---------------------------------------------------------------------- C8
\* the files attempted so far are the first files of the list, each once
AttemptedInOrder ==
    /\ Len(attempted) <= Len(html_files)
    /\ attempted = SubSeq(html_files, 1, Len(attempted))

\* the whole list was attempted and every file that does not fail is written
BatchCompleted ==
    /\ drv_pc = "done"
    /\ attempted = html_files
    /\ \A k \in 1..Len(html_files) :
         file_kind[html_files[k]] = "ok"
            => out_files[html_files[k]] = FileOutput(html_files[k])

\* C8: whatever files fail, the files are attempted once each in list order,
\* and the loop ends having attempted every file and written the output of
\* every file that does not fail.
C8_BatchNeverAborts ==
    /\ [](AttemptedInOrder /\ drv_pc # "aborted")
    /\ <>BatchCompleted

\* three files, the first two failing, the third written
C8_Witness ==
    /\ BatchCompleted
    /\ Len(html_files) = 3
    /\ file_kind[html_files[1]] = "unreadable"
    /\ file_kind[html_files[2]] = "bad_convert"
    /\ file_kind[html_files[3]] = "ok"
    /\ Truthy(out_files[html_files[3]])

\* ================================================== batch_by_quarter.main
\* a post_date: <<year, month, day>>, ordered as its ISO string is
Dates == {<<2024, 12, 31>>, <<2025, 3, 1>>, <<2025, 3, 2>>}

DateLess(a, b) ==
    \/ a[1] < b[1]
    \/ a[1] = b[1] /\ a[2] < b[2]
    \/ a[1] = b[1] /\ a[2] = b[2] /\ a[3] < b[3]

\* the state of a post's Markdown file
MdKinds == {"ok", "missing", "unreadable"}

\* the rows of posts.csv: row k is the post with post_id k
RowLists ==
    UNION {{[i \in 1..k |-> [post_id |-> i, post_date |-> d[i]]] : d \in [1..k -> Dates]} :
              k \in 0..MaxRows}

\* get_quarter: the key f"{date.year}-Q{quarter}" as <<year, quarter>>
get_quarter(date) == <<date[1], ((date[2] - 1) \div 3) + 1>>

QuarterLess(a, b) == a[1] < b[1] \/ (a[1] = b[1] /\ a[2] < b[2])

RECURSIVE group_rows(_, _)
\* the loop over the rows: posts_by_quarter[quarter].append(...)
group_rows(rs, d) ==
    IF rs = <<>> THEN d
    ELSE LET q == get_quarter(Head(rs).post_date)
             old == IF dict_has(d, q) THEN dict_get(d, q) ELSE <<>>
         IN  group_rows(Tail(rs), dict_set(d, q, Append(old, Head(rs))))

RECURSIVE insert_by_date(_, _)
insert_by_date(x, s) ==
    IF s = <<>> THEN <<x>>
    ELSE IF DateLess(x.post_date, Head(s).post_date) THEN <<x>> \o s
    ELSE <<Head(s)>> \o insert_by_date(x, Tail(s))

RECURSIVE sort_by_date(_)
\* list.sort(key=post_date): stable
sort_by_date(s) ==
    IF s = <<>> THEN <<>>
    ELSE insert_by_date(s[Len(s)], sort_by_date(SubSeq(s, 1, Len(s) - 1)))

load_posts_by_quarter(rs) ==
    LET d == group_rows(rs, <<>>)
    IN  [i \in 1..Len(d) |-> [k |-> d[i].k, v |-> sort_by_date(d[i].v)]]

RECURSIVE insert_quarter(_, _)
insert_quarter(x, s) ==
    IF s = <<>> THEN <<x>>
    ELSE IF QuarterLess(x, Head(s)) THEN <<x>> \o s
    ELSE <<Head(s)>> \o insert_quarter(x, Tail(s))

RECURSIVE sorted_quarters(_)
\* sorted(posts_by_quarter.keys())
sorted_quarters(keys) ==
    IF keys = <<>> THEN <<>>
    ELSE insert_quarter(Head(keys), sorted_quarters(Tail(keys)))

\* one out_f.write call: what is written, and for which post
Write(what, post) == [w |-> what, post |-> post]

\* the three writes of the quarter header (lines 95-97)
QuarterHeader == <<Write("title", 0), Write("count", 0), Write("rule", 0)>>

\* the writes of one iteration of the loop over the posts, for the post at
\* position i (from 1) of the quarter (lines 100-122)
post_writes(i, post_id, kind) ==
    IF kind = "missing" THEN <<>>
    ELSE IF kind = "unreadable" THEN <<>>
    ELSE (IF i > 1 THEN <<Write("separator", 0)>> ELSE <<>>)
         \o <<Write("content", post_id)>>

BatInit ==
    /\ ConvInit /\ ImgIdle /\ DrvOff /\ PipeOff
    /\ bat_pc = "start"
    /\ rows \in RowLists
    /\ md_kind \in [1..Len(rows) -> MdKinds]
    /\ posts_by_quarter = <<>>
    /\ quarter_keys = <<>>
    /\ bat_q = 1
    /\ bat_i = 1
    /\ out_f = <<>>
    /\ quarter_files = <<>>
    /\ total_posts = 0

\* posts.csv is loaded (lines 79-86)
LoadPosts ==
    /\ bat_pc = "start"
    /\ posts_by_quarter' = load_posts_by_quarter(rows)
    /\ quarter_keys' = sorted_quarters(dict_keys(posts_by_quarter'))
    /\ bat_pc' = "quarters"
    /\ UNCHANGED <<rows, md_kind, bat_q, bat_i, out_f, quarter_files, total_posts,
                   convVars, imgVars, drvVars, pipeVars>>

\* the next quarter's file is opened and its header written (lines 86-97)
OpenQuarter ==
    /\ bat_pc = "quarters"
    /\ bat_q <= Len(quarter_keys)
    /\ out_f' = QuarterHeader
    /\ bat_i' = 1
    /\ bat_pc' = "posts"
    /\ UNCHANGED <<rows, md_kind, posts_by_quarter, quarter_keys, bat_q,
                   quarter_files, total_posts, convVars, imgVars, drvVars, pipeVars>>

\* one iteration of the loop over the quarter's posts (lines 100-122)
WritePost ==
    /\ bat_pc = "posts"
    /\ LET posts == dict_get(posts_by_quarter, quarter_keys[bat_q])
       IN  /\ bat_i <= Len(posts)
           /\ out_f' = out_f \o post_writes(bat_i, posts[bat_i].post_id,
                                            md_kind[posts[bat_i].post_id])
           /\ total_posts' =
                IF md_kind[posts[bat_i].post_id] = "ok"
                THEN total_posts + 1 ELSE total_posts
    /\ bat_i' = bat_i + 1
    /\ UNCHANGED <<bat_pc, rows, md_kind, posts_by_quarter, quarter_keys, bat_q,
                   quarter_files, convVars, imgVars, drvVars, pipeVars>>

\* the quarter's file is closed (lines 122-127)
CloseQuarter ==
    /\ bat_pc = "posts"
    /\ bat_i > Len(dict_get(posts_by_quarter, quarter_keys[bat_q]))
    /\ quarter_files' = Append(quarter_files, [k |-> quarter_keys[bat_q], v |-> out_f])
    /\ out_f' = <<>>
    /\ bat_q' = bat_q + 1
    /\ bat_pc' = "quarters"
    /\ UNCHANGED <<rows, md_kind, posts_by_quarter, quarter_keys, bat_i,
                   total_posts, convVars, imgVars, drvVars, pipeVars>>

\* every quarter is written (lines 129-132)
BatchDone ==
    /\ bat_pc = "quarters"
    /\ bat_q > Len(quarter_keys)
    /\ bat_pc' = "done"
    /\ UNCHANGED <<rows, md_kind, posts_by_quarter, quarter_keys, bat_q, bat_i,
                   out_f, quarter_files, total_posts, convVars, imgVars, drvVars, pipeVars>>

BatNext == LoadPosts \/ OpenQuarter \/ WritePost \/ CloseQuarter \/ BatchDone

BatchSpec == BatInit /\ [][BatNext]_vars

\* ---------------------------------------------------------------------- C9
CountOf(f, what) == Cardinality({i \in 1..Len(f) : f[i].w = what})

\* C9: in every quarter file written, the post separators number one less
\* than the posts written (none when no post is written), and a post is
\* written before each separator.
C9_SeparatorsBetweenPosts ==
    \A q \in 1..Len(quarter_files) :
        LET f == quarter_files[q].v
        IN  /\ CountOf(f, "separator")
                 = IF CountOf(f, "content") >= 1 THEN CountOf(f, "content") - 1 ELSE 0
            /\ \A i \in 1..Len(f) :
                 f[i].w = "separator" => \E j \in 1..(i - 1) : f[j].w = "content"

\* ------------------------------------------------- the three-step pipeline
\* process_export.main: each step script runs as a child process, and the
\* child's exit status decides whether the next step starts.

\* the scripts of the steps list, in order (process_export.py lines 31-35)
steps == <<"parse_html.py", "convert_to_jsonl.py", "batch_by_quarter.py">>

\* the validation at the head of a step script's main: parse_html wants the
\* posts directory and posts.csv, the other two want posts.csv
validation_passes(script_name) ==
    IF script_name = "parse_html.py"
    THEN posts_dir_exists /\ csv_exists
    ELSE csv_exists

\* what a step script's main returns when no exception escapes it: 1 from
\* the failed validation; otherwise parse_html ends with `return 0` and the
\* other two fall off the end of main
main_returns(script_name) ==
    IF ~validation_passes(script_name) THEN "1"
    ELSE IF script_name = "parse_html.py" THEN "0"
    ELSE "None"

\* the exit status of a step script's interpreter: its last statement is a
\* bare `main()`, so what main returns is dropped and the status is 0; an
\* exception that escapes main ends the interpreter with status 1
script_exit(outcome) == IF outcome = "raised" THEN 1 ELSE 0

\* run_script: result.returncode == 0
run_script(code) == code = 0

PipeInit ==
    /\ ConvInit /\ ImgIdle /\ DrvOff /\ BatOff
    /\ pipe_pc = "loop"
    /\ posts_dir_exists \in BOOLEAN
    /\ csv_exists \in BOOLEAN
    /\ pipe_i = 1
    /\ started = <<>>
    /\ main_outcomes = <<>>
    /\ conversion_errors = 0
    /\ returncode = 0
    /\ pipe_result = -1

\* the loop over steps starts the next script (lines 42-47, 17-20)
StartStep ==
    /\ pipe_pc = "loop"
    /\ pipe_i <= Len(steps)
    /\ started' = Append(started, steps[pipe_i])
    /\ pipe_pc' = "child"
    /\ UNCHANGED <<posts_dir_exists, csv_exists, pipe_i, main_outcomes,
                   conversion_errors, returncode, pipe_result,
                   convVars, imgVars, drvVars, batVars>>

\* the child's main returns: 1 from the validation, or its normal end;
\* parse_html.main ends normally however many files it reported an ERROR
\* for (parse_html.py lines 278-289)
StepMainReturns ==
    /\ pipe_pc = "child"
    /\ main_outcomes' = Append(main_outcomes, main_returns(steps[pipe_i]))
    /\ \E errors \in 0..MaxFiles :
         conversion_errors' =
            IF steps[pipe_i] = "parse_html.py" /\ validation_passes(steps[pipe_i])
            THEN errors ELSE conversion_errors
    /\ pipe_pc' = "exit"
    /\ UNCHANGED <<posts_dir_exists, csv_exists, pipe_i, started, returncode,
                   pipe_result, convVars, imgVars, drvVars, batVars>>

\* an exception escapes the child's main: after the validation, from the
\* directory creation, the reading of posts.csv or the writing of output
StepMainRaises ==
    /\ pipe_pc = "child"
    /\ validation_passes(steps[pipe_i])
    /\ main_outcomes' = Append(main_outcomes, "raised")
    /\ pipe_pc' = "exit"
    /\ UNCHANGED <<posts_dir_exists, csv_exists, pipe_i, started,
                   conversion_errors, returncode, pipe_result,
                   convVars, imgVars, drvVars, batVars>>

\* the child's interpreter exits and subprocess.run returns
StepExits ==
    /\ pipe_pc = "exit"
    /\ returncode' = script_exit(main_outcomes[Len(main_outcomes)])
    /\ pipe_pc' = "check"
    /\ UNCHANGED <<posts_dir_exists, csv_exists, pipe_i, started, main_outcomes,
                   conversion_errors, pipe_result,
                   convVars, imgVars, drvVars, batVars>>

\* run_script returned False: main returns 1 (lines 47-49)
StepFailed ==
    /\ pipe_pc = "check"
    /\ ~run_script(returncode)
    /\ pipe_result' = 1
    /\ pipe_pc' = "done"
    /\ UNCHANGED <<posts_dir_exists, csv_exists, pipe_i, started, main_outcomes,
                   conversion_errors, returncode,
                   convVars, imgVars, drvVars, batVars>>

\* run_script returned True: on to the next step (line 50)
StepSucceeded ==
    /\ pipe_pc = "check"
    /\ run_script(returncode)
    /\ pipe_i' = pipe_i + 1
    /\ pipe_pc' = "loop"
    /\ UNCHANGED <<posts_dir_exists, csv_exists, started, main_outcomes,
                   conversion_errors, returncode, pipe_result,
                   convVars, imgVars, drvVars, batVars>>

\* the loop is over: main returns 0 (lines 52-55)
AllComplete ==
    /\ pipe_pc = "loop"
    /\ pipe_i > Len(steps)
    /\ pipe_result' = 0
    /\ pipe_pc' = "done"
    /\ UNCHANGED <<posts_dir_exists, csv_exists, pipe_i, started, main_outcomes,
                   conversion_errors, returncode,
                   convVars, imgVars, drvVars, batVars>>

PipeNext ==
    \/ StartStep \/ StepMainReturns \/ StepMainRaises \/ StepExits
    \/ StepFailed \/ StepSucceeded \/ AllComplete

PipelineSpec == PipeInit /\ [][PipeNext]_vars

\* --------------------------------------------------------------------- C11
\* the scripts started so far are the first ones of the steps list, in order
StartedInOrder ==
    /\ Len(started) <= Len(steps)
    /\ started = SubSeq(steps, 1, Len(started))

\* the main of the k-th started script reported an error: it returned 1
ReportedError(k) == k <= Len(main_outcomes) /\ main_outcomes[k] = "1"

\* C11: the steps start in the order parse_html, convert_to_jsonl,
\* batch_by_quarter; once the main of a step has returned 1 no later step
\* is started and process_export.main returns nothing but 1; and
\* process_export.main returns 0 only after all three mains ended without
\* reporting an error.
C11_StopsAtFirstError ==
    /\ StartedInOrder
    /\ \A k \in 1..Len(steps) :
         ReportedError(k) =>
            /\ Len(started) = k
            /\ pipe_pc = "done" => pipe_result = 1
    /\ (pipe_pc = "done" /\ pipe_result = 0) =>
         /\ Len(main_outcomes) = Len(steps)
         /\ \A k \in 1..Len(steps) : main_outcomes[k] \in {"0", "None"}

====
